---- MODULE Spec2Model ----
(***************************************************************************)
(* A model of invoke_transfer.py: transfer_money and the helpers it calls  *)
(* (validate_account, get_account_balance).  One invocation of             *)
(* transfer_money is a sequence of four blocking remote calls; each action *)
(* below is one of them together with the code that handles its response.  *)
(* The remote service is the environment: every response is an input.      *)
(*                                                                         *)
(* Strings whose structure the code inspects (URLs, content types) are     *)
(* sequences of tokens.  A URL is a host token followed by path tokens,    *)
(* each path token being "/" or "/" followed by a name, so a token         *)
(* sequence denotes exactly one string and str.endswith('/transfer') is    *)
(* "the last token is /transfer".                                          *)
(***************************************************************************)
EXTENDS Integers, Sequences, FiniteSets, TLC

(* ---------------------------------------------------------------- bounds *)
MaxBalance == 2
MaxAmount == 2
MaxSegs == 2

(* ------------------------------------------------------------- constants *)
DEFAULT_ENDPOINT == <<"http://localhost:8123", "/">>
DEFAULT_TIMEOUT == 5

Procs == {1, 2}

(* ------------------------------------------------------- Python values   *)
PyNone == [t |-> "None"]
PyStr(s) == [t |-> "str", s |-> s]
PyFloat(f) == [t |-> "float", f |-> f]
Unset == [t |-> "unset"]

\* A float is a number or NaN (float("nan"), or the JSON literal NaN).
F(n) == [nan |-> FALSE, v |-> n]
NaN == [nan |-> TRUE, v |-> 0]

\* Python's a > b on floats: false whenever either side is NaN.
Gt(a, b) == ~a.nan /\ ~b.nan /\ a.v > b.v

\* x or default, for an Optional[str] argument (None and "" are falsy).
Truthy(x) == x.t = "str" /\ x.s # <<>>
OrDefault(x, d) == IF Truthy(x) THEN x.s ELSE d

(* ------------------------------------------------------- string helpers  *)
RECURSIVE RStrip(_)
\* str.rstrip('/')
RStrip(s) ==
  IF s # <<>> /\ s[Len(s)] = "/" THEN RStrip(SubSeq(s, 1, Len(s) - 1)) ELSE s

\* str.endswith('/transfer')
EndsWithTransfer(s) == s # <<>> /\ s[Len(s)] = "/transfer"

\* "application/json" in content_type
IsJsonContentType(ct) == \E i \in 1..Len(ct) : ct[i] = "application/json"

(* ------------------------------------------------------- response bodies *)
\* A raw body is [fmt, n]; the text it stands for:
\*   obj_num    {"id": "ACC1000", "balance": n}
\*   obj_str    {"balance": "n"}
\*   obj_badstr {"balance": "abc"}
\*   obj_null   {"balance": null}
\*   obj_nan    {"balance": NaN}
\*   obj_nokey  {"id": "ACC1000"}
\*   obj_tx     {"transactionId": "tx123", "status": "SUCCESS"}
\*   list       [n]
\*   null       null
\*   num        n          (a JSON number, e.g. 1000.0)
\*   plus_num   +n         (not JSON, but float() accepts it)
\*   nan_text   nan        (not JSON, but float() accepts it)
\*   garbage    OK         (neither JSON nor a number)
Body(fmt, n) == [fmt |-> fmt, n |-> n]

\* float(text) for a str: [ok, f]; not ok is ValueError.
FloatOfText(b) ==
  CASE b.fmt \in {"num", "plus_num"} -> [ok |-> TRUE, f |-> F(b.n)]
    [] b.fmt = "nan_text" -> [ok |-> TRUE, f |-> NaN]
    [] OTHER -> [ok |-> FALSE, f |-> NaN]

\* resp.json(): [ok, val]; not ok is the ValueError of an undecodable body.
JsonLoads(b) ==
  CASE b.fmt = "obj_num" ->
         [ok |-> TRUE, val |-> [t |-> "dict", id |-> "ACC1000", balance |-> PyFloat(F(b.n))]]
    [] b.fmt = "obj_str" ->
         [ok |-> TRUE, val |-> [t |-> "dict", balance |-> PyStr(Body("num", b.n))]]
    [] b.fmt = "obj_badstr" ->
         [ok |-> TRUE, val |-> [t |-> "dict", balance |-> PyStr(Body("garbage", 0))]]
    [] b.fmt = "obj_null" ->
         [ok |-> TRUE, val |-> [t |-> "dict", balance |-> PyNone]]
    [] b.fmt = "obj_nan" ->
         [ok |-> TRUE, val |-> [t |-> "dict", balance |-> PyFloat(NaN)]]
    [] b.fmt = "obj_nokey" ->
         [ok |-> TRUE, val |-> [t |-> "dict", id |-> "ACC1000"]]
    [] b.fmt = "obj_tx" ->
         [ok |-> TRUE, val |-> [t |-> "dict", transactionId |-> "tx123", status |-> "SUCCESS"]]
    [] b.fmt = "list" -> [ok |-> TRUE, val |-> [t |-> "list", n |-> b.n]]
    [] b.fmt = "null" -> [ok |-> TRUE, val |-> PyNone]
    [] b.fmt = "num" -> [ok |-> TRUE, val |-> PyFloat(F(b.n))]
    [] OTHER -> [ok |-> FALSE, val |-> PyNone]

\* float(x) for a Python value: [exc, f]; exc is "", "ValueError" or "TypeError".
FloatOf(x) ==
  CASE x.t = "float" -> [exc |-> "", f |-> x.f]
    [] x.t = "str" ->
         IF FloatOfText(x.s).ok
           THEN [exc |-> "", f |-> FloatOfText(x.s).f]
           ELSE [exc |-> "ValueError", f |-> NaN]
    [] OTHER -> [exc |-> "TypeError", f |-> NaN]

(* ------------------------------------------------------------- responses *)
\* What a remote call comes back with: a response, or a transport failure
\* (requests.RequestException: connection refused, timeout, ...).  accepted
\* says whether the remote service received and carried out the request; a
\* transport failure can strike before or after it did.
Response(status, ctype, body) ==
  [kind |-> "response", status |-> status, ctype |-> ctype, body |-> body,
   accepted |-> status < 400]
TransportFailure(accepted) ==
  [kind |-> "RequestException", status |-> 0, ctype |-> <<>>, body |-> Body("garbage", 0),
   accepted |-> accepted]
NoResponse ==
  [kind |-> "none", status |-> 0, ctype |-> <<>>, body |-> Body("garbage", 0),
   accepted |-> FALSE]

\* resp.raise_for_status() raises HTTPError
RaisesForStatus(r) == r.status >= 400 /\ r.status < 600

(* ------------------------------------------------- the code's functions *)
\* validate_account: True exactly when the call returned a response with
\* status 200; any other status, or a RequestException, is False.
\* (variant: any status that raise_for_status lets through counts as valid)
validate_account_2xx(r) == r.kind = "response" /\ ~RaisesForStatus(r)
validate_account(r) == r.kind = "response" /\ r.status = 200

\* get_account_balance's fallback when resp.json() or float(data["balance"])
\* raised ValueError: float(resp.text.strip()), None when that fails too.
BalanceFromText(r) ==
  IF FloatOfText(r.body).ok
    THEN [exc |-> "", val |-> PyFloat(FloatOfText(r.body).f)]
    ELSE [exc |-> "", val |-> PyNone]

\* get_account_balance: [exc, val].  val is the balance (a float) or None;
\* exc names an exception that neither except clause catches.
get_account_balance(r) ==
  IF r.kind # "response" \/ RaisesForStatus(r)
    THEN [exc |-> "", val |-> PyNone]
    ELSE LET j == JsonLoads(r.body) IN
      IF ~j.ok THEN BalanceFromText(r)
      ELSE IF j.val.t = "dict" /\ "balance" \in DOMAIN j.val
        THEN LET fo == FloatOf(j.val.balance) IN
          CASE fo.exc = "" -> [exc |-> "", val |-> PyFloat(fo.f)]
            [] fo.exc = "ValueError" -> BalanceFromText(r)
            [] OTHER -> [exc |-> fo.exc, val |-> PyNone]
      ELSE IF j.val.t = "float"
        THEN [exc |-> "", val |-> PyFloat(j.val.f)]
        ELSE [exc |-> "", val |-> PyNone]

\* headers: the bearer credential when auth_token is truthy, else empty.
Headers(auth_token) ==
  IF Truthy(auth_token)
    THEN [t |-> "dict", Authorization |-> <<"Bearer ">> \o auth_token.s]
    ELSE [t |-> "dict"]

\* headers or None, as passed to requests.post
HeadersOrNone(h) == IF "Authorization" \in DOMAIN h THEN h ELSE PyNone

\* endpoint, after "if endpoint is None" and "endpoint or DEFAULT_ENDPOINT"
EffectiveEndpoint(endpoint) == OrDefault(endpoint, DEFAULT_ENDPOINT)

ValidateUrl(base_url, account_id) ==
  RStrip(base_url) \o <<"/accounts/validate/", account_id>>

BalanceUrl(base_url, account_id) ==
  RStrip(base_url) \o <<"/accounts/balance/", account_id>>

\* post_url: the stripped endpoint if it ends with /transfer, else with
\* /transfer appended.
\* (variant: /transfer appended without the endswith test)
PostUrl_AlwaysAppend(endpoint) == RStrip(endpoint) \o <<"/transfer">>
PostUrl(endpoint) ==
  LET base == RStrip(endpoint) IN
  IF EndsWithTransfer(base) THEN base ELSE base \o <<"/transfer">>

Payload(a) == [fromAccount |-> a.from_acc, toAccount |-> a.to_acc, amount |-> a.amount]

\* the balance check: amount > balance
\* (variants: amount >= balance; balance > amount)
Insufficient_Ge(amount, bal) == ~amount.nan /\ ~bal.nan /\ amount.v >= bal.v
Insufficient_Reversed(amount, bal) == Gt(bal, amount)
Insufficient(amount, bal) == Gt(amount, bal)

\* (variant: the two values swapped)
InsufficientResult_Swapped(bal, amount) ==
  [t |-> "dict", status |-> "FAILED", message |-> "Insufficient funds",
   availableBalance |-> amount, requestedAmount |-> bal]
InsufficientResult(bal, amount) ==
  [t |-> "dict", status |-> "FAILED", message |-> "Insufficient funds",
   availableBalance |-> bal, requestedAmount |-> amount]

\* What transfer_money returns for the outcome of its POST.
\* (variant: response.json() whatever the Content-Type)
TransferResult_AlwaysJson(r) ==
  IF r.kind # "response" \/ RaisesForStatus(r) \/ ~JsonLoads(r.body).ok
    THEN PyNone ELSE JsonLoads(r.body).val
TransferResult(r) ==
  IF r.kind # "response" \/ RaisesForStatus(r) THEN PyNone
  ELSE IF IsJsonContentType(r.ctype)
    THEN (IF JsonLoads(r.body).ok THEN JsonLoads(r.body).val ELSE PyNone)
    ELSE [t |-> "dict", text |-> r.body]

(* ----------------------------------------------------------------- state *)
VARIABLES
  args,     \* args[p]: the arguments of invocation p of transfer_money
  pc,       \* pc[p]: the remote call invocation p makes next, "done" or "idle"
  vsrc,     \* vsrc[p]: what the validation of from_acc came back with
  vdst,     \* vdst[p]: what the validation of to_acc came back with
  bresp,    \* bresp[p]: what the balance fetch came back with
  presp,    \* presp[p]: what the transfer POST came back with
  balance,  \* balance[p]: the local variable balance, once assigned
  result,   \* result[p]: the value returned, once transfer_money has returned
  raised,   \* raised[p]: the exception that left transfer_money, "" if none
  wire      \* every request issued so far, in order, tagged with its invocation

vars == <<args, pc, vsrc, vdst, bresp, presp, balance, result, raised, wire>>

(* ---------------------------------------------------------------- inputs *)
Accounts == {"ACC1000", "ACC1001"}
Amounts == {F(n) : n \in -1..MaxAmount}
Balances == 0..MaxBalance

PathTokens == {"/", "/transfer", "/api"}
Paths == UNION {[1..n -> PathTokens] : n \in 0..MaxSegs}
Endpoints ==
  {PyNone, PyStr(<<>>)} \cup {PyStr(<<"http://example">> \o path) : path \in Paths}
AuthTokens == {PyNone, PyStr(<<>>), PyStr(<<"tok">>)}

ArgSpace ==
  [from_acc : {"ACC1000"}, to_acc : Accounts, amount : Amounts,
   endpoint : Endpoints, timeout : {DEFAULT_TIMEOUT}, auth_token : AuthTokens]

\* The arguments of main()'s demonstration call.
DemoArgs ==
  [from_acc |-> "ACC1000", to_acc |-> "ACC1001", amount |-> F(100),
   endpoint |-> PyStr(DEFAULT_ENDPOINT), timeout |-> DEFAULT_TIMEOUT,
   auth_token |-> PyNone]

Statuses == {200, 201, 404}
ContentTypes == {<<"application/json", "; charset=utf-8">>, <<"text/plain">>, <<>>}

ValidationResponses ==
  {TransportFailure(FALSE)} \cup
  {Response(st, <<"application/json">>, Body("obj_nokey", 0)) : st \in Statuses}

BalanceBodies ==
  {Body(fmt, n) : fmt \in {"obj_num", "obj_str", "num", "plus_num"}, n \in Balances}
  \cup {Body(fmt, 0) : fmt \in {"obj_badstr", "obj_null", "obj_nan", "obj_nokey",
                                "nan_text", "list", "garbage"}}
BalanceResponses ==
  {TransportFailure(FALSE), Response(404, <<"text/plain">>, Body("garbage", 0))} \cup
  {Response(st, <<"application/json">>, b) : st \in {200, 201}, b \in BalanceBodies}

TransferBodies == {Body("obj_tx", 0), Body("null", 0), Body("garbage", 0)}
TransferResponses ==
  {TransportFailure(a) : a \in BOOLEAN} \cup
  {Response(404, <<"text/plain">>, Body("garbage", 0))} \cup
  {Response(st, ct, b) : st \in {200, 201}, ct \in ContentTypes, b \in TransferBodies}

\* A remote service that is up and answers as documented.
HealthyValidationResponses ==
  {Response(200, <<"application/json">>, Body("obj_nokey", 0)),
   Response(404, <<"application/json">>, Body("obj_nokey", 0))}
HealthyBalanceResponses ==
  {Response(200, <<"application/json">>, Body("obj_num", n)) : n \in Balances}
HealthyTransferResponses ==
  {Response(200, <<"application/json">>, Body("obj_tx", 0))}

(* --------------------------------------------------------------- requests *)
Request(p, method, url, headers, json) ==
  [p |-> p, method |-> method, url |-> url, headers |-> headers, json |-> json,
   timeout |-> args[p].timeout]

BaseUrl(p) == EffectiveEndpoint(args[p].endpoint)

CallsOf(p) == SelectSeq(wire, LAMBDA e : e.p = p)

Return(p, value) ==
  /\ result' = [result EXCEPT ![p] = value]
  /\ pc' = [pc EXCEPT ![p] = "done"]

(* --------------------------------------------------------------- actions  *)
\* transfer_money up to and including the validation of the source account.
\* (variant: the result of the validation ignored)
ValidateSource_NoReturn(p, r) ==
  /\ pc[p] = "validate_from"
  /\ wire' = Append(wire, Request(p, "GET", ValidateUrl(BaseUrl(p), args[p].from_acc),
                                  Headers(args[p].auth_token), PyNone))
  /\ vsrc' = [vsrc EXCEPT ![p] = r]
  /\ pc' = [pc EXCEPT ![p] = "validate_to"]
  /\ UNCHANGED <<args, vdst, bresp, presp, balance, result, raised>>
ValidateSource(p, r) ==
  /\ pc[p] = "validate_from"
  /\ wire' = Append(wire, Request(p, "GET", ValidateUrl(BaseUrl(p), args[p].from_acc),
                                  Headers(args[p].auth_token), PyNone))
  /\ vsrc' = [vsrc EXCEPT ![p] = r]
  /\ IF validate_account(r)
       THEN pc' = [pc EXCEPT ![p] = "validate_to"] /\ UNCHANGED result
       ELSE Return(p, PyNone)
  /\ UNCHANGED <<args, vdst, bresp, presp, balance, raised>>

\* The validation of the destination account.
\* (variant: the result of the validation ignored)
ValidateDest_NoReturn(p, r) ==
  /\ pc[p] = "validate_to"
  /\ wire' = Append(wire, Request(p, "GET", ValidateUrl(BaseUrl(p), args[p].to_acc),
                                  Headers(args[p].auth_token), PyNone))
  /\ vdst' = [vdst EXCEPT ![p] = r]
  /\ pc' = [pc EXCEPT ![p] = "balance"]
  /\ UNCHANGED <<args, vsrc, bresp, presp, balance, result, raised>>
ValidateDest(p, r) ==
  /\ pc[p] = "validate_to"
  /\ wire' = Append(wire, Request(p, "GET", ValidateUrl(BaseUrl(p), args[p].to_acc),
                                  Headers(args[p].auth_token), PyNone))
  /\ vdst' = [vdst EXCEPT ![p] = r]
  /\ IF validate_account(r)
       THEN pc' = [pc EXCEPT ![p] = "balance"] /\ UNCHANGED result
       ELSE Return(p, PyNone)
  /\ UNCHANGED <<args, vsrc, bresp, presp, balance, raised>>

\* The balance fetch and the balance check.
FetchBalance(p, r) ==
  /\ pc[p] = "balance"
  /\ wire' = Append(wire, Request(p, "GET", BalanceUrl(BaseUrl(p), args[p].from_acc),
                                  Headers(args[p].auth_token), PyNone))
  /\ bresp' = [bresp EXCEPT ![p] = r]
  /\ LET b == get_account_balance(r) IN
       IF b.exc # ""
         THEN /\ raised' = [raised EXCEPT ![p] = b.exc]
              /\ pc' = [pc EXCEPT ![p] = "done"]
              /\ UNCHANGED <<balance, result>>
         ELSE /\ balance' = [balance EXCEPT ![p] = b.val]
              /\ UNCHANGED raised
              /\ IF b.val = PyNone THEN Return(p, PyNone)
                 ELSE IF Insufficient(args[p].amount, b.val.f)
                   THEN Return(p, InsufficientResult(b.val.f, args[p].amount))
                   ELSE pc' = [pc EXCEPT ![p] = "post"] /\ UNCHANGED result
  /\ UNCHANGED <<args, vsrc, vdst, presp>>

\* The transfer POST and the interpretation of its response.
SubmitTransfer(p, r) ==
  /\ pc[p] = "post"
  /\ wire' = Append(wire, Request(p, "POST", PostUrl(BaseUrl(p)),
                                  HeadersOrNone(Headers(args[p].auth_token)),
                                  Payload(args[p])))
  /\ presp' = [presp EXCEPT ![p] = r]
  /\ Return(p, TransferResult(r))
  /\ UNCHANGED <<args, vsrc, vdst, bresp, balance, raised>>

(* -------------------------------------------------------- specifications  *)
InitCommon ==
  /\ vsrc = [p \in Procs |-> NoResponse]
  /\ vdst = [p \in Procs |-> NoResponse]
  /\ bresp = [p \in Procs |-> NoResponse]
  /\ presp = [p \in Procs |-> NoResponse]
  /\ balance = [p \in Procs |-> Unset]
  /\ result = [p \in Procs |-> Unset]
  /\ raised = [p \in Procs |-> ""]
  /\ wire = <<>>

\* One invocation, any arguments, any behaviour of the remote service.
Init ==
  /\ InitCommon
  /\ \E a \in ArgSpace : args = [p \in Procs |-> IF p = 1 THEN a ELSE DemoArgs]
  /\ pc = [p \in Procs |-> IF p = 1 THEN "validate_from" ELSE "idle"]

Next ==
  \E p \in Procs :
    \/ \E r \in ValidationResponses : ValidateSource(p, r)
    \/ \E r \in ValidationResponses : ValidateDest(p, r)
    \/ \E r \in BalanceResponses : FetchBalance(p, r)
    \/ \E r \in TransferResponses : SubmitTransfer(p, r)

Spec == Init /\ [][Next]_vars

\* Two concurrent invocations on the same source account, against a remote
\* service that is up; the transfer POST may still time out.
InitConc ==
  /\ InitCommon
  /\ args \in [Procs -> {a \in ArgSpace : /\ a.endpoint = PyNone
                                          /\ a.auth_token = PyNone
                                          /\ a.to_acc = "ACC1001"}]
  /\ pc = [p \in Procs |-> "validate_from"]

NextConc ==
  \E p \in Procs :
    \/ \E r \in HealthyValidationResponses : ValidateSource(p, r)
    \/ \E r \in HealthyValidationResponses : ValidateDest(p, r)
    \/ \E r \in HealthyBalanceResponses : FetchBalance(p, r)
    \/ \E r \in HealthyTransferResponses \cup {TransportFailure(TRUE)} : SubmitTransfer(p, r)

SpecConc == InitConc /\ [][NextConc]_vars

(* ------------------------------------------------- vocabulary of claims  *)
Is200(r) == r.kind = "response" /\ r.status = 200
Came(r) == r.kind # "none"
Returned(p) == pc[p] = "done" /\ raised[p] = ""

HasToken(url, tok) == \E i \in 1..Len(url) : url[i] = tok
IsBalanceCall(e) == e.method = "GET" /\ HasToken(e.url, "/accounts/balance/")
IsValidateCall(e) == e.method = "GET" /\ HasToken(e.url, "/accounts/validate/")
IsTransferCall(e) == e.method = "POST"

BalanceCalled(p) == \E i \in 1..Len(wire) : wire[i].p = p /\ IsBalanceCall(wire[i])
Posted(p) == \E i \in 1..Len(wire) : wire[i].p = p /\ IsTransferCall(wire[i])
PostOf(p) == CHOOSE e \in {wire[i] : i \in 1..Len(wire)} : e.p = p /\ IsTransferCall(e)

\* An ordinary invocation: a positive amount between two different accounts
\* (the documented precondition), and no NaN among the values it has read.
Ordinary(p) ==
  /\ args[p].amount.v > 0
  /\ args[p].from_acc # args[p].to_acc
  /\ ~(balance[p].t = "float" /\ balance[p].f.nan)

\* The balance a 2xx balance response states in one of the accepted shapes.
NumericFormats == {"obj_num", "obj_str", "num", "plus_num"}
StatesBalance(r) ==
  r.kind = "response" /\ r.status \in {200, 201} /\ r.body.fmt \in NumericFormats

(* ------------------------------------------------------------------- C1  *)
\* C1: when the validation of the source account comes back with anything
\* but HTTP 200 (another status, a transport failure), transfer_money has
\* returned None and has called neither the balance nor the transfer endpoint.
C1_SourceInvalid ==
  \A p \in Procs :
    (Came(vsrc[p]) /\ ~Is200(vsrc[p])) =>
      /\ Returned(p) /\ result[p] = PyNone
      /\ ~BalanceCalled(p) /\ ~Posted(p)
      /\ Len(CallsOf(p)) = 1

C1_Witness ==
  \E p \in Procs : vsrc[p].kind = "response" /\ vsrc[p].status = 404 /\ Returned(p)

(* ------------------------------------------------------------------- C2  *)
\* C2: when both accounts validate and the fetched balance is strictly less
\* than amount, transfer_money has returned exactly the structured
\* insufficient-funds result with that balance and that amount, and no
\* transfer POST was issued.
C2_InsufficientFunds ==
  \A p \in Procs :
    (/\ Is200(vsrc[p]) /\ Is200(vdst[p])
     /\ StatesBalance(bresp[p]) /\ bresp[p].body.n < args[p].amount.v) =>
      /\ Returned(p)
      /\ result[p] = [t |-> "dict", status |-> "FAILED", message |-> "Insufficient funds",
                      availableBalance |-> F(bresp[p].body.n),
                      requestedAmount |-> args[p].amount]
      /\ ~Posted(p)

C2_Witness ==
  \E p \in Procs :
    /\ Is200(vsrc[p]) /\ Is200(vdst[p])
    /\ StatesBalance(bresp[p]) /\ bresp[p].body.fmt = "plus_num"
    /\ bresp[p].body.n = 1 /\ args[p].amount = F(2)
    /\ Returned(p)

(* ------------------------------------------------------------------- C3  *)
\* The case of C3: both accounts validate, the fetched balance is at least
\* amount, and the transfer submission succeeds (a response below 400 whose
\* body, when declared JSON, decodes).
C3_Case(p) ==
  /\ Is200(vsrc[p]) /\ Is200(vdst[p])
  /\ StatesBalance(bresp[p]) /\ bresp[p].body.n >= args[p].amount.v
  /\ presp[p].kind = "response" /\ presp[p].status < 400
  /\ IsJsonContentType(presp[p].ctype) => JsonLoads(presp[p].body).ok

\* The payload as the transfer endpoint sent it: the decoded structure when
\* the body is JSON, the text otherwise.
Received(r) == IF JsonLoads(r.body).ok THEN JsonLoads(r.body).val ELSE PyStr(r.body)

\* C3 as stated: in that case the returned value is the payload received
\* from the transfer endpoint, unmodified (stated here for ordinary
\* invocations only, which is all a refutation needs).
C3_Unmodified ==
  \A p \in Procs :
    (Ordinary(p) /\ C3_Case(p)) => Returned(p) /\ result[p] = Received(presp[p])

\* C3 as amended: in that case the returned value is the decoded JSON body
\* when the response's Content-Type contains application/json, and otherwise
\* the raw body wrapped as {text: body}, whatever the body is.
C3_PayloadOrWrapped ==
  \A p \in Procs :
    C3_Case(p) =>
      /\ Returned(p)
      /\ IsJsonContentType(presp[p].ctype) => result[p] = JsonLoads(presp[p].body).val
      /\ ~IsJsonContentType(presp[p].ctype) => result[p] = [t |-> "dict", text |-> presp[p].body]

C3_Witness ==
  \E p \in Procs :
    /\ C3_Case(p) /\ Returned(p)
    /\ bresp[p].body.n = args[p].amount.v
    /\ ~IsJsonContentType(presp[p].ctype) /\ presp[p].body = Body("obj_tx", 0)
    /\ result[p] = [t |-> "dict", text |-> Body("obj_tx", 0)]

(* ------------------------------------------------------------------- C4  *)
\* C4: when the source account validates and the validation of the
\* destination account comes back with anything but HTTP 200, transfer_money
\* has returned None and no transfer POST was issued.
C4_DestInvalid ==
  \A p \in Procs :
    (Is200(vsrc[p]) /\ Came(vdst[p]) /\ ~Is200(vdst[p])) =>
      Returned(p) /\ result[p] = PyNone /\ ~Posted(p)

C4_Witness ==
  \E p \in Procs :
    Is200(vsrc[p]) /\ vdst[p].kind = "RequestException" /\ Returned(p)

(* ------------------------------------------------------------------- C5  *)
\* C5: whatever the four remote calls come back with, a finished invocation
\* has returned one of the three result shapes (success payload, structured
\* insufficient-funds result, None); no exception leaves transfer_money.
C5_NoEscape ==
  \A p \in Procs :
    (Ordinary(p) /\ pc[p] = "done") =>
      /\ raised[p] = ""
      /\ \/ result[p] = PyNone
         \/ /\ balance[p].t = "float"
            /\ result[p] = InsufficientResult(balance[p].f, args[p].amount)
         \/ /\ presp[p].kind = "response" /\ presp[p].status < 400
            /\ result[p] # Unset

(* ------------------------------------------------------------------- C6  *)
\* C6: whenever transfer_money returns None, the remote service has not
\* received and accepted a transfer POST of that invocation.
C6_NoneMeansNoTransfer ==
  \A p \in Procs :
    (Ordinary(p) /\ Returned(p) /\ result[p] = PyNone) => ~presp[p].accepted

(* ------------------------------------------------------------------- C7  *)
Le(a, b) == ~a.nan /\ ~b.nan /\ a.v <= b.v
IndexOf(p, IsKind(_)) == CHOOSE i \in 1..Len(wire) : wire[i].p = p /\ IsKind(wire[i])

\* C7: the balance check and the transfer POST of an invocation are two
\* round trips with nothing in between that reserves the funds: an
\* invocation that has read a balance covering its amount goes on to POST
\* whatever other invocations have done since, and it POSTs only on the
\* strength of its own snapshot, read in an earlier request of its own; the
\* only requests ever sent are validations, balance reads and transfer POSTs.
C7_CheckThenSpend ==
  /\ \A i \in 1..Len(wire) :
       IsValidateCall(wire[i]) \/ IsBalanceCall(wire[i]) \/ IsTransferCall(wire[i])
  /\ \A p \in Procs :
       /\ (balance[p].t = "float" /\ Le(args[p].amount, balance[p].f)) =>
            (pc[p] = "post" \/ Posted(p))
       /\ Posted(p) =>
            /\ balance[p].t = "float" /\ ~Gt(args[p].amount, balance[p].f)
            /\ BalanceCalled(p)
            /\ IndexOf(p, IsBalanceCall) < IndexOf(p, IsTransferCall)

\* The interleaving of C7: both invocations read the same balance before
\* either POSTs, both POST, the remote service accepts both, and the two
\* positive amounts together exceed that balance.
C7_Witness ==
  /\ Posted(1) /\ Posted(2)
  /\ args[1].from_acc = args[2].from_acc
  /\ Ordinary(1) /\ Ordinary(2)
  /\ balance[1] = balance[2] /\ balance[1].t = "float" /\ ~balance[1].f.nan
  /\ Le(args[1].amount, balance[1].f) /\ Le(args[2].amount, balance[2].f)
  /\ args[1].amount.v + args[2].amount.v > balance[1].f.v
  /\ IndexOf(1, IsBalanceCall) < IndexOf(2, IsTransferCall)
  /\ IndexOf(2, IsBalanceCall) < IndexOf(1, IsTransferCall)
  /\ presp[1].accepted /\ presp[2].accepted

(* ------------------------------------------------------------------- C8  *)
\* b is e without its trailing slashes.
IsStripped(b, e) ==
  \E k \in 0..Len(e) :
    /\ b = SubSeq(e, 1, k)
    /\ \A i \in (k + 1)..Len(e) : e[i] = "/"
    /\ k = 0 \/ e[k] # "/"

Prefixes(e) == {SubSeq(e, 1, k) : k \in 0..Len(e)}

\* u ends with /transfer and what precedes it does not.
ExactlyOneTransfer(u) ==
  EndsWithTransfer(u) /\ ~EndsWithTransfer(SubSeq(u, 1, Len(u) - 1))

\* C8 as stated: an endpoint that ends with /transfer is the POST URL
\* verbatim, to any other endpoint /transfer is appended; either way the POST
\* URL ends with exactly one /transfer and deriving again changes nothing.
C8_VerbatimOrAppended ==
  \A p \in Procs :
    (Ordinary(p) /\ Posted(p)) =>
      LET e == BaseUrl(p)
          u == PostOf(p).url
      IN /\ IF EndsWithTransfer(e) THEN u = e ELSE u = e \o <<"/transfer">>
         /\ ExactlyOneTransfer(u)
         /\ PostUrl(u) = u

\* C8 as amended: the derivation applies to the endpoint without its
\* trailing slashes: if that ends with /transfer it is the POST URL,
\* otherwise /transfer is appended to it.  The POST URL always ends with
\* /transfer, deriving again changes nothing, and it ends with exactly one
\* /transfer unless the stripped endpoint itself ended with two.
C8_StrippedThenSuffixed ==
  \A p \in Procs :
    Posted(p) =>
      LET e == BaseUrl(p)
          u == PostOf(p).url
      IN \E b \in Prefixes(e) :
           /\ IsStripped(b, e)
           /\ IF EndsWithTransfer(b) THEN u = b ELSE u = b \o <<"/transfer">>
           /\ EndsWithTransfer(u)
           /\ PostUrl(u) = u
           /\ ExactlyOneTransfer(u) <=> ~(EndsWithTransfer(b) /\ ~ExactlyOneTransfer(b))

C8_Witness ==
  \E p \in Procs :
    /\ Posted(p)
    /\ args[p].endpoint = PyStr(<<"http://example", "/transfer", "/">>)
    /\ PostOf(p).url = <<"http://example", "/transfer">>

(* ------------------------------------------------------------------- C9  *)
\* The kind and account of each remote call of an invocation, in order.
Ordered(p) ==
  << <<"validate", args[p].from_acc>>, <<"validate", args[p].to_acc>>,
     <<"balance", args[p].from_acc>>, <<"transfer", "">> >>

KindOf(e) ==
  CASE IsTransferCall(e) -> <<"transfer", "">>
    [] IsValidateCall(e) -> <<"validate", e.url[Len(e.url)]>>
    [] IsBalanceCall(e) -> <<"balance", e.url[Len(e.url)]>>
    [] OTHER -> <<"other", "">>

\* C9: the remote calls of an invocation are, in this order and each at most
\* once, validate(from), validate(to), balance(from), transfer POST; a call
\* is issued only after every earlier one came back successfully, and after
\* the first that did not the invocation has stopped.
C9_OrderedOnceGated ==
  \A p \in Procs :
    LET c == CallsOf(p) IN
      /\ Len(c) <= 4
      /\ \A i \in 1..Len(c) : KindOf(c[i]) = Ordered(p)[i]
      /\ Len(c) >= 2 => Is200(vsrc[p])
      /\ Len(c) >= 3 => Is200(vdst[p])
      /\ Len(c) >= 4 => bresp[p].kind = "response" /\ bresp[p].status < 400
                        /\ balance[p].t = "float"
      /\ Came(vsrc[p]) <=> Len(c) >= 1
      /\ Came(vdst[p]) <=> Len(c) >= 2
      /\ Came(bresp[p]) <=> Len(c) >= 3
      /\ Came(presp[p]) <=> Len(c) >= 4
      /\ \/ pc[p] = "idle" /\ Len(c) = 0
         \/ pc[p] = "validate_from" /\ Len(c) = 0
         \/ pc[p] = "validate_to" /\ Len(c) = 1
         \/ pc[p] = "balance" /\ Len(c) = 2
         \/ pc[p] = "post" /\ Len(c) = 3
         \/ pc[p] = "done" /\ Len(c) >= 1

C9_Witness ==
  \E p \in Procs : Len(CallsOf(p)) = 4 /\ Returned(p) /\ args[p].to_acc # args[p].from_acc

(* ------------------------------------------------------------------ C10  *)
\* The case of C10: both validations returned 200 and a balance was parsed.
C10_Case(p) == Is200(vsrc[p]) /\ Is200(vdst[p]) /\ balance[p].t = "float"

\* C10 as stated: in that case the POST is issued if and only if
\* amount <= balance (an invocation at "post" has nothing left but to issue
\* it), and the payload carries the amount unchanged.
C10_PostIffLe ==
  \A p \in Procs :
    C10_Case(p) =>
      /\ Posted(p) => Le(args[p].amount, balance[p].f)
      /\ (pc[p] = "done" /\ ~Posted(p)) => ~Le(args[p].amount, balance[p].f)
      /\ Posted(p) => PostOf(p).json.amount = args[p].amount

\* C10 as amended: in that case the POST is issued if and only if amount >
\* balance is false, that is if amount <= balance or the parsed balance is NaN
\* (a body nan or {"balance": NaN}); no other check is applied to amount, and
\* the payload carries the amount unchanged, zero and negative included.
C10_PostIffNotGreater ==
  \A p \in Procs :
    C10_Case(p) =>
      LET goes == Le(args[p].amount, balance[p].f) \/ balance[p].f.nan IN
      /\ (pc[p] = "post" \/ Posted(p)) <=> goes
      /\ (pc[p] = "done" /\ ~Posted(p)) <=> ~goes
      /\ Posted(p) => PostOf(p).json.amount = args[p].amount

C10_Witness ==
  \E p \in Procs :
    /\ C10_Case(p) /\ Posted(p)
    /\ args[p].amount = F(-1)
    /\ PostOf(p).json.amount = F(-1)
    /\ presp[p].accepted

====
